---- MODULE Spec2Model ----
(***************************************************************************)
(* A model of the static photo-album generator: sync_captions.py (the      *)
(* Caption Synchronizer) and generate_album.py (the Album Renderer), with  *)
(* the Image Lister and the CSV caption-store codec both scripts share.    *)
(*                                                                         *)
(* A string is a sequence of characters, a character a one-element TLA+    *)
(* string.  The file system is the state: the images directory, the        *)
(* caption store file (its text), the output page.                         *)
(***************************************************************************)
EXTENDS Integers, Sequences, FiniteSets, TLC

VARIABLES
    dirExists,  \* IMAGES_DIR.exists()
    dir,        \* the entries of album/images: name -> "file" | "dir"
    csv,        \* album/captions.csv: NoFile, or its text (a string)
    html,       \* album/index.html: NoPage, or the page written
    out,        \* the last run: its exit status, its locals, what it printed
    input,      \* the arguments of a function applied on its own
    output      \* and what it returned

vars == <<dirExists, dir, csv, html, out, input, output>>

----------------------------------------------------------------------------
(* Bounds of the model. *)

MaxFiles == 2       \* entries in the images directory
MaxRows == 2        \* data rows of a caption store that was edited by hand
MaxStrLen == 2      \* length of a title, a note or a file stem drawn at random

----------------------------------------------------------------------------
(* Characters and strings. *)

\* A file that does not exist (no text holds this element).
NoFile == <<"<no file>">>
BOM == "<BOM>"              \* U+FEFF, the UTF-8 byte-order mark
WSP == "<U+3000>"           \* IDEOGRAPHIC SPACE: white space to str.strip()
CR == "\r"
LF == "\n"
QUOTE == "\""
COMMA == ","

\* The code point of a character (those that occur in the file names drawn).
Ord(c) ==
    CASE c = " " -> 32 [] c = "&" -> 38 [] c = "'" -> 39 [] c = "." -> 46
      [] c = "<" -> 60
      [] c = "A" -> 65 [] c = "B" -> 66 [] c = "G" -> 71 [] c = "J" -> 74
      [] c = "P" -> 80
      [] c = "a" -> 97 [] c = "b" -> 98 [] c = "c" -> 99 [] c = "f" -> 102
      [] c = "g" -> 103 [] c = "i" -> 105 [] c = "j" -> 106 [] c = "n" -> 110
      [] c = "p" -> 112 [] c = "t" -> 116 [] c = "x" -> 120
      [] c = WSP -> 12288
      [] OTHER -> 0

\* str.lower(), one character.
LowerChar(c) ==
    CASE c = "A" -> "a" [] c = "B" -> "b" [] c = "G" -> "g" [] c = "J" -> "j"
      [] c = "P" -> "p"
      [] OTHER -> c

\* str.lower()
Lower(s) == [i \in 1..Len(s) |-> LowerChar(s[i])]

\* s < t, as Python compares two strings: by code point, a prefix first.
RECURSIVE StrLess(_, _)
StrLess(s, t) ==
    IF t = <<>> THEN FALSE
    ELSE IF s = <<>> THEN TRUE
    ELSE IF Ord(Head(s)) # Ord(Head(t)) THEN Ord(Head(s)) < Ord(Head(t))
    ELSE StrLess(Tail(s), Tail(t))

\* What str.strip() removes.
IsSpace(c) == c \in {" ", "\t", CR, LF, WSP}

RECURSIVE LStrip(_)
LStrip(s) == IF s # <<>> /\ IsSpace(Head(s)) THEN LStrip(Tail(s)) ELSE s

RECURSIVE RStrip(_)
RStrip(s) ==
    IF s # <<>> /\ IsSpace(s[Len(s)]) THEN RStrip(SubSeq(s, 1, Len(s) - 1)) ELSE s

\* str.strip()
Strip(s) == RStrip(LStrip(s))

\* str.replace(old, new) for a one-character old.
RECURSIVE Replace(_, _, _)
Replace(s, old, new) ==
    IF s = <<>> THEN <<>>
    ELSE (IF Head(s) = old THEN new ELSE <<Head(s)>>) \o Replace(Tail(s), old, new)

\* "".join(parts)
RECURSIVE Join(_)
Join(parts) == IF parts = <<>> THEN <<>> ELSE Head(parts) \o Join(Tail(parts))

Range(f) == {f[i] : i \in DOMAIN f}

\* The strings over an alphabet, up to a length.
StringsUpTo(alphabet, n) == UNION {[1..k -> alphabet] : k \in 0..n}

----------------------------------------------------------------------------
(* pathlib: Path(name).suffix and Path(name).stem. *)

\* The index of the last "." of a name, 0 when it has none (str.rfind + 1).
RECURSIVE LastDot(_)
LastDot(name) ==
    IF name = <<>> THEN 0
    ELSE IF name[Len(name)] = "." THEN Len(name)
    ELSE LastDot(SubSeq(name, 1, Len(name) - 1))

\* PurePath.suffix: from the last dot on, unless the dot opens or ends the name.
Suffix(name) ==
    LET i == LastDot(name)
    IN  IF 1 < i /\ i < Len(name) THEN SubSeq(name, i, Len(name)) ELSE <<>>

\* PurePath.stem
Stem(name) ==
    LET i == LastDot(name)
    IN  IF 1 < i /\ i < Len(name) THEN SubSeq(name, 1, i - 1) ELSE name

----------------------------------------------------------------------------
(* The Image Lister: list_images of both scripts. *)

IMAGE_EXTS ==
    { <<".", "j", "p", "g">>, <<".", "j", "p", "e", "g">>, <<".", "p", "n", "g">>,
      <<".", "w", "e", "b", "p">>, <<".", "g", "i", "f">> }

\* The orders images_dir.iterdir() may yield the entries of d in: any.
IterDirOrders(d) ==
    {o \in [1..Cardinality(DOMAIN d) -> DOMAIN d] :
        \A i, j \in DOMAIN o : i # j => o[i] # o[j]}

\* A mutant of IsImage: the suffix is compared as it is spelled.
IsImageMutNoLower(d, name) == d[name] = "file" /\ Suffix(name) \in IMAGE_EXTS

\* p.is_file() and p.suffix.lower() in IMAGE_EXTS
IsImage(d, name) == d[name] = "file" /\ Lower(Suffix(name)) \in IMAGE_EXTS

\* The list comprehension: the entries kept, in the order they are yielded.
RECURSIVE Filter(_, _)
Filter(d, order) ==
    IF order = <<>> THEN <<>>
    ELSE (IF IsImage(d, Head(order)) THEN <<Head(order)>> ELSE <<>>)
         \o Filter(d, Tail(order))

\* One step of list.sort(key=str.lower), which is stable: x goes behind every
\* element whose key is not greater than its own.
RECURSIVE InsertByKey(_, _)
InsertByKey(sorted, x) ==
    IF sorted = <<>> THEN <<x>>
    ELSE IF StrLess(Lower(x), Lower(Head(sorted))) THEN <<x>> \o sorted
    ELSE <<Head(sorted)>> \o InsertByKey(Tail(sorted), x)

\* files.sort(key=str.lower)
RECURSIVE SortByLower(_)
SortByLower(files) ==
    IF files = <<>> THEN <<>>
    ELSE InsertByKey(SortByLower(SubSeq(files, 1, Len(files) - 1)), files[Len(files)])

\* list_images of sync_captions.py
list_images(d, order) == SortByLower(Filter(d, order))

----------------------------------------------------------------------------
(* The csv module, as the two scripts use it: the "excel" dialect (delimiter *)
(* ",", quotechar '"', doublequote, lineterminator "\r\n", QUOTE_MINIMAL,    *)
(* not strict), on a file opened with encoding="utf-8-sig", newline="".      *)

FIELDNAMES ==
    << <<"f", "i", "l", "e", "n", "a", "m", "e">>, <<"t", "i", "t", "l", "e">>,
       <<"n", "o", "t", "e">> >>

\* A caption row: what main appends to rows, and DictWriter.writerows takes.
Row(fn, title, note) == [filename |-> fn, title |-> title, note |-> note]

\* csv.writer quotes a field that holds the delimiter, the quote character or a
\* character of the line terminator.
NeedsQuote(field) == \E i \in DOMAIN field : field[i] \in {COMMA, QUOTE, CR, LF}

\* A mutant of WriteField: a quote inside a quoted field is not doubled.
WriteFieldMutNoDouble(field) ==
    IF NeedsQuote(field) THEN <<QUOTE>> \o field \o <<QUOTE>> ELSE field

\* The field as csv.writer writes it.
WriteField(field) ==
    IF NeedsQuote(field)
    THEN <<QUOTE>> \o Replace(field, QUOTE, <<QUOTE, QUOTE>>) \o <<QUOTE>>
    ELSE field

RECURSIVE JoinFields(_)
JoinFields(fields) ==
    IF fields = <<>> THEN <<>>
    ELSE IF Len(fields) = 1 THEN WriteField(fields[1])
    ELSE WriteField(Head(fields)) \o <<COMMA>> \o JoinFields(Tail(fields))

\* csv.writer.writerow: a lone empty field is written as "".
WriteRow(fields, terminator) ==
    (IF fields = << <<>> >> THEN <<QUOTE, QUOTE>> ELSE JoinFields(fields)) \o terminator

\* DictWriter.writerows: each row's values in the order of the field names.
RECURSIVE WriteRows(_)
WriteRows(rows) ==
    IF rows = <<>> THEN <<>>
    ELSE WriteRow(<<Head(rows).filename, Head(rows).title, Head(rows).note>>, <<CR, LF>>)
         \o WriteRows(Tail(rows))

\* write_csv: the text of the file it leaves (the codec writes the BOM first).
write_csv(rows) == <<BOM>> \o WriteRow(FIELDNAMES, <<CR, LF>>) \o WriteRows(rows)

\* The end of a line, which csv.reader processes after the line's characters.
EOL == "<EOL>"

\* Iterating a file opened with newline="": a line ends behind "\n", "\r\n" or a
\* lone "\r", and the last line may have no end.
LineEndsAt(t, i) ==
    \/ t[i] = LF
    \/ t[i] = CR /\ ~(i < Len(t) /\ t[i + 1] = LF)
    \/ i = Len(t)

\* The reader: its state, the field and the record in the making, the records
\* returned so far.
ReaderInit == [state |-> "START_RECORD", field |-> <<>>, fields |-> <<>>, rows |-> <<>>]

SaveField(p, next) ==
    [p EXCEPT !.fields = Append(p.fields, p.field), !.field = <<>>, !.state = next]

AddChar(p, c, next) == [p EXCEPT !.field = Append(p.field, c), !.state = next]

AfterLine(c) == IF c = EOL THEN "START_RECORD" ELSE "EAT_CRNL"

\* parse_process_char
ProcessChar(p, c) ==
    LET newline == c \in {CR, LF, EOL}
        startField ==
            IF newline THEN SaveField(p, AfterLine(c))
            ELSE IF c = QUOTE THEN [p EXCEPT !.state = "IN_QUOTED_FIELD"]
            ELSE IF c = COMMA THEN SaveField(p, "START_FIELD")
            ELSE AddChar(p, c, "IN_FIELD")
    IN  CASE p.state = "START_RECORD" ->
                IF c = EOL THEN p
                ELSE IF c \in {CR, LF} THEN [p EXCEPT !.state = "EAT_CRNL"]
                ELSE startField
          [] p.state = "START_FIELD" -> startField
          [] p.state = "IN_FIELD" ->
                IF newline THEN SaveField(p, AfterLine(c))
                ELSE IF c = COMMA THEN SaveField(p, "START_FIELD")
                ELSE AddChar(p, c, "IN_FIELD")
          [] p.state = "IN_QUOTED_FIELD" ->
                IF c = EOL THEN p
                ELSE IF c = QUOTE THEN [p EXCEPT !.state = "QUOTE_IN_QUOTED_FIELD"]
                ELSE AddChar(p, c, "IN_QUOTED_FIELD")
          [] p.state = "QUOTE_IN_QUOTED_FIELD" ->
                IF c = QUOTE THEN AddChar(p, c, "IN_QUOTED_FIELD")
                ELSE IF c = COMMA THEN SaveField(p, "START_FIELD")
                ELSE IF newline THEN SaveField(p, AfterLine(c))
                ELSE AddChar(p, c, "IN_FIELD")
          [] OTHER -> \* EAT_CRNL: only "\n" or the end of the line can follow
                IF c = EOL THEN [p EXCEPT !.state = "START_RECORD"] ELSE p

\* The characters of one line, one after the other.
RECURSIVE ProcessLine(_, _)
ProcessLine(p, line) ==
    IF line = <<>> THEN p
    ELSE ProcessChar(ProcessLine(p, SubSeq(line, 1, Len(line) - 1)), line[Len(line)])

\* Where the first line of a text ends.
FirstLineEnd(t) ==
    CHOOSE i \in 1..Len(t) : LineEndsAt(t, i) /\ \A j \in 1..(i - 1) : ~LineEndsAt(t, j)

\* Reader.__next__, over the whole input: the characters of a line are
\* processed, then the end of the line; a record is returned when a line ends
\* with the reader back at the start of a record; at the end of the input a
\* record left open in a quoted field is returned as it stands.
RECURSIVE ReadLines(_, _)
ReadLines(p, t) ==
    IF t = <<>>
    THEN IF p.state = "IN_QUOTED_FIELD" THEN Append(p.rows, Append(p.fields, p.field))
         ELSE p.rows
    ELSE LET k == FirstLineEnd(t)
             q == ProcessChar(ProcessLine(p, SubSeq(t, 1, k)), EOL)
             rest == SubSeq(t, k + 1, Len(t))
         IN  IF q.state = "START_RECORD"
             THEN ReadLines([q EXCEPT !.rows = Append(q.rows, q.fields), !.fields = <<>>],
                            rest)
             ELSE ReadLines(q, rest)

ReadAll(t) == ReadLines(ReaderInit, t)

\* Decoding utf-8-sig: one leading byte-order mark is dropped.
DecodeSig(text) == IF text # <<>> /\ Head(text) = BOM THEN Tail(text) ELSE text

\* csv.reader over the file: every record, as a list of fields.
CsvReader(text) == ReadAll(DecodeSig(text))

Max(S) == CHOOSE x \in S : \A y \in S : y <= x

\* (row.get(key) or "") of the dict DictReader makes of a record: the last column
\* of that name, None when the record is too short for one of them or the header
\* has no such column.
GetOrEmpty(fieldnames, record, key) ==
    LET cols == {i \in DOMAIN fieldnames : fieldnames[i] = key}
    IN  IF cols = {} \/ \E i \in cols : i > Len(record) THEN <<>>
        ELSE record[Max(cols)]

\* A mapping filename -> [title, note]; m @@ with the later key winning.
Put(m, fn, rec) == [k \in DOMAIN m \cup {fn} |-> IF k = fn THEN rec ELSE m[k]]

\* The loop of read_existing / load_captions over the records behind the header:
\* DictReader skips the empty records, the loop those with a blank filename.
RECURSIVE ReadRecords(_, _, _)
ReadRecords(fieldnames, records, data) ==
    IF records = <<>> THEN data
    ELSE LET r == Head(records)
             fn == Strip(GetOrEmpty(fieldnames, r, FIELDNAMES[1]))
         IN  IF r = <<>> \/ fn = <<>>
             THEN ReadRecords(fieldnames, Tail(records), data)
             ELSE ReadRecords(fieldnames, Tail(records),
                     Put(data, fn,
                         [title |-> Strip(GetOrEmpty(fieldnames, r, FIELDNAMES[2])),
                          note |-> Strip(GetOrEmpty(fieldnames, r, FIELDNAMES[3]))]))

EmptyMapping == [k \in {} |-> [title |-> <<>>, note |-> <<>>]]

\* read_existing (sync_captions.py) and load_captions (generate_album.py), the
\* same code: the mapping read from the caption store, empty when it is absent.
read_existing(file) ==
    IF file = NoFile THEN EmptyMapping
    ELSE LET records == CsvReader(file)
         IN  IF records = <<>> THEN EmptyMapping
             ELSE ReadRecords(Head(records), Tail(records), EmptyMapping)

load_captions(file) == read_existing(file)

----------------------------------------------------------------------------
(* The Renderer's markup.  A page is a sequence of segments: the template's  *)
(* own text ("lit", kept whole) and the values interpolated into it, each    *)
(* with the place it goes to.                                                *)

Seg(kind, text) == [kind |-> kind, text |-> text]
Lit(s) == Seg("lit", <<s>>)

\* The text shown for an image without a title (one character stands for it:
\* it holds none of the characters the escaping is about).
PLACEHOLDER == <<"(caption not entered)">>

\* A mutant of escape_html: the double quote is left as it is.
escape_htmlMutNoQuote(s) ==
    Replace(Replace(Replace(s, "&", <<"&", "a", "m", "p", ";">>),
                    "<", <<"&", "l", "t", ";">>),
            ">", <<"&", "g", "t", ";">>)

\* escape_html: & first, so that the entities written later keep their &.
escape_html(s) ==
    Replace(Replace(Replace(Replace(s, "&", <<"&", "a", "m", "p", ";">>),
                            "<", <<"&", "l", "t", ";">>),
                    ">", <<"&", "g", "t", ";">>),
            QUOTE, <<"&", "q", "u", "o", "t", ";">>)

\* A mutant of escape_attr: the apostrophe is left as it is.
escape_attrMutNoApostrophe(s) == escape_html(s)

\* escape_attr
escape_attr(s) == Replace(escape_html(s), "'", <<"&", "#", "3", "9", ";">>)

\* figure_block
figure_block(filename, title, note) ==
    LET title_html == IF title # <<>> THEN title ELSE PLACEHOLDER
        note_html == IF note # <<>> THEN note ELSE <<>>
        note_span ==
            IF note_html # <<>>
            THEN << Lit("\n        <span class=\"cap-note\">"),
                    Seg("note", escape_html(note_html)), Lit("</span>") >>
            ELSE <<>>
    IN  << Lit("    <figure>\n      <a class=\"thumb\" href=\"images/"),
           Seg("href", escape_attr(filename)),
           Lit("\">\n        <img src=\"images/"),
           Seg("src", escape_attr(filename)),
           Lit("\" alt=\""),
           Seg("alt", escape_attr(Stem(filename))),
           Lit("\" loading=\"lazy\">\n      </a>\n      <figcaption>\n        <span class=\"cap-title\">"),
           Seg("title", escape_html(title_html)),
           Lit("</span>") >>
        \o note_span
        \o << Lit("\n      </figcaption>\n    </figure>"), Lit("\n") >>

\* figures.rstrip(): the line end behind the last block goes.
RECURSIVE RStripSegs(_)
RStripSegs(segs) ==
    IF segs # <<>> /\ segs[Len(segs)] = Lit("\n")
    THEN RStripSegs(SubSeq(segs, 1, Len(segs) - 1))
    ELSE segs

\* index.html when it does not exist.
NoPage == << Seg("no file", << >>) >>

\* build_html: the page template around the figures and the generation time.
build_html(figures, generated_iso) ==
    << Lit("<!doctype html> ... <main class=\"grid\">\n") >>
    \o RStripSegs(figures)
    \o << Lit("\n  </main> ... <footer> ..."), Seg("generated", <<generated_iso>>),
          Lit("<br> ... </html>\n") >>

\* A mutant of CaptionOf: the note is not looked up.
CaptionOfMutNoNote(captions, name) ==
    IF name \in DOMAIN captions THEN [title |-> captions[name].title, note |-> <<>>]
    ELSE [title |-> <<>>, note |-> <<>>]

\* captions.get(name, {}) and cap.get("title", ""), cap.get("note", "")
CaptionOf(captions, name) ==
    IF name \in DOMAIN captions THEN captions[name]
    ELSE [title |-> <<>>, note |-> <<>>]

\* The loop of generate_album.main: one block per image, in the listed order.
RECURSIVE Blocks(_, _)
Blocks(images, captions) ==
    IF images = <<>> THEN <<>>
    ELSE LET cap == CaptionOf(captions, Head(images))
         IN  figure_block(Head(images), cap.title, cap.note)
             \o Blocks(Tail(images), captions)

\* A mutant of Carried: the note of the existing record is not carried over.
CarriedMutNoNote(fn, existing) ==
    IF fn \in DOMAIN existing
    THEN [row |-> Row(fn, existing[fn].title, <<>>), added |-> 0]
    ELSE [row |-> Row(fn, <<>>, <<>>), added |-> 1]

\* The body of the loop of sync_captions.main: the row for one image, and
\* whether it counts as new.
Carried(fn, existing) ==
    IF fn \in DOMAIN existing
    THEN [row |-> Row(fn, existing[fn].title, existing[fn].note), added |-> 0]
    ELSE [row |-> Row(fn, <<>>, <<>>), added |-> 1]

\* The loop of sync_captions.main: the rows to write and the count of new ones.
RECURSIVE Merge(_, _)
Merge(images, existing) ==
    IF images = <<>> THEN [rows |-> <<>>, added |-> 0]
    ELSE LET before == Merge(SubSeq(images, 1, Len(images) - 1), existing)
             this == Carried(images[Len(images)], existing)
         IN  [rows |-> Append(before.rows, this.row),
              added |-> before.added + this.added]

----------------------------------------------------------------------------
(* The runs.  out keeps what a run leaves behind: how it ended, the locals   *)
(* of main when it ended, the lines printed.                                 *)

NoRun ==
    [prog |-> "none", status |-> "none", images |-> <<>>, existing |-> EmptyMapping,
     rows |-> <<>>, added |-> 0, printed |-> <<>>]

\* raise SystemExit(...): nothing was listed, read, written or printed.
Exit(prog) == [NoRun EXCEPT !.prog = prog, !.status = "SystemExit"]

\* What list_images may return for a directory: one list per order of iterdir().
Listings(d) == {list_images(d, order) : order \in IterDirOrders(d)}

\* A mutant of SyncMain: the directory is not checked, a missing one is listed
\* as an empty one.
SyncMainMutNoCheck ==
    /\ LET existing == read_existing(csv)
       IN  \E images \in (IF dirExists THEN Listings(dir) ELSE {<<>>}) :
              LET merged == Merge(images, existing)
              IN  /\ csv' = write_csv(merged.rows)
                  /\ out' = [prog |-> "sync", status |-> "ok", images |-> images,
                             existing |-> existing, rows |-> merged.rows,
                             added |-> merged.added,
                             printed |-> << <<"[OK]">>, <<"images", Len(images)>>,
                                            <<"new rows added", merged.added>> >>]
    /\ UNCHANGED <<dirExists, dir, html, input, output>>

\* sync_captions.main
SyncMain ==
    /\ \/ /\ ~dirExists
          /\ out' = Exit("sync")
          /\ csv' = csv
       \/ /\ dirExists
          /\ LET existing == read_existing(csv)
             IN  \E images \in Listings(dir) :
                    LET merged == Merge(images, existing)
                    IN  /\ csv' = write_csv(merged.rows)
                        /\ out' = [prog |-> "sync", status |-> "ok", images |-> images,
                                   existing |-> existing, rows |-> merged.rows,
                                   added |-> merged.added,
                                   printed |-> << <<"[OK]">>, <<"images", Len(images)>>,
                                                  <<"new rows added", merged.added>> >>]
    /\ UNCHANGED <<dirExists, dir, html, input, output>>

\* datetime.now(), formatted: what the clock may say.
Clock == {"2026-01-01 09:00:00", "2026-01-02 09:00:00"}

\* list_images of generate_album.py: the same filter and sort, over the paths
\* (a name stands for its path; main reads p.name only).
album_list_images(d, order) == SortByLower(Filter(d, order))

AlbumListings(d) == {album_list_images(d, order) : order \in IterDirOrders(d)}

\* generate_album.main
RenderMain ==
    /\ \/ /\ ~dirExists
          /\ out' = Exit("render")
          /\ html' = html
       \/ /\ dirExists
          /\ LET captions == load_captions(csv)
             IN  \E images \in AlbumListings(dir) :
                    LET figures == Blocks(images, captions)
                    IN  \E now \in Clock :
                           /\ html' = build_html(figures, now)
                           /\ out' = [prog |-> "render", status |-> "ok",
                                      images |-> images, existing |-> captions,
                                      rows |-> <<>>, added |-> 0,
                                      printed |-> << <<"[OK] generated", Len(images)>> >>]
    /\ UNCHANGED <<dirExists, dir, csv, input, output>>

\* Outside the two scripts: the images directory is removed.
RemoveImagesDir ==
    /\ dirExists
    /\ dirExists' = FALSE
    /\ dir' = << >>
    /\ out' = NoRun
    /\ UNCHANGED <<csv, html, input, output>>

----------------------------------------------------------------------------
(* The file names, captions and stores the runs start from. *)

N_a == <<"a", ".", "j", "p", "g">>
N_aJPG == <<"a", ".", "J", "P", "G">>
N_wide == <<WSP, "a", ".", "j", "p", "g">>     \* opens with an ideographic space
N_txt == <<"a", ".", "t", "x", "t">>
N_b == <<"b", ".", "j", "p", "g">>

N_Jpg == <<"a", ".", "J", "p", "g">>
N_png == <<"b", ".", "p", "n", "g">>
N_dot == <<".", "j", "p", "g">>                 \* a dot file: no suffix

\* The directories over some names, each with the kinds it may have, MaxFiles
\* entries at most.
DirsOver(kinds) ==
    {d \in UNION {[S -> {"file", "dir"}] : S \in SUBSET DOMAIN kinds} :
        /\ Cardinality(DOMAIN d) <= MaxFiles
        /\ \A n \in DOMAIN d : d[n] \in kinds[n]}

\* What album/images may hold when a script starts: images whose names differ
\* in case only or in leading white space, a text file, a subdirectory b.jpg.
MainEntries ==
    [n \in {N_a, N_aJPG, N_wide, N_txt, N_b} |-> IF n = N_b THEN {"dir"} ELSE {"file"}]

\* The rows of a caption store edited by hand: any of these in any order, also
\* twice, also for an image that is gone.
StoreRows ==
    { Row(N_a, <<>>, <<>>), Row(N_a, <<"T">>, <<"N">>), Row(N_wide, <<"T">>, <<"N">>),
      Row(N_aJPG, <<"U">>, <<>>) }

\* The caption stores a run may find: none, an empty file, a table.
Stores ==
    {NoFile, <<>>} \cup
    {write_csv(rows) : rows \in UNION {[1..k -> StoreRows] : k \in 0..MaxRows}}

Init ==
    /\ dirExists \in BOOLEAN
    /\ dir \in IF dirExists THEN DirsOver(MainEntries) ELSE {<< >>}
    /\ csv \in Stores
    /\ html = NoPage
    /\ out = NoRun
    /\ input = << >>
    /\ output = << >>

Next == SyncMain \/ RenderMain \/ RemoveImagesDir

Spec == Init /\ [][Next]_vars

----------------------------------------------------------------------------
(* The Image Lister on its own: list_images of either script, called again   *)
(* and again on a directory that does not change.                            *)

\* Any of these names may be a file or a subdirectory.
ListerEntries ==
    [n \in {N_a, N_aJPG, N_Jpg, N_wide, N_png, N_txt, N_b, N_dot} |-> {"file", "dir"}]

Called(prog) == [NoRun EXCEPT !.prog = prog, !.status = "ok"]

InitLister ==
    /\ dirExists = TRUE
    /\ dir \in DirsOver(ListerEntries)
    /\ csv = NoFile
    /\ html = NoPage
    /\ out = NoRun
    /\ input = << >>
    /\ output = << >>

\* list_images(IMAGES_DIR) of sync_captions.py
ListImages ==
    /\ \E order \in IterDirOrders(dir) :
          /\ input' = order
          /\ output' = list_images(dir, order)
    /\ out' = Called("list_images")
    /\ UNCHANGED <<dirExists, dir, csv, html>>

\* list_images(IMAGES_DIR) of generate_album.py
AlbumListImages ==
    /\ \E order \in IterDirOrders(dir) :
          /\ input' = order
          /\ output' = album_list_images(dir, order)
    /\ out' = Called("album_list_images")
    /\ UNCHANGED <<dirExists, dir, csv, html>>

NextLister == ListImages \/ AlbumListImages

SpecLister == InitLister /\ [][NextLister]_vars

----------------------------------------------------------------------------
(* The Caption Store codec on its own: a mapping is written by write_csv and *)
(* read back by read_existing.                                               *)

\* The characters a title is drawn over, and two titles of the kind the
\* round trip is about: a line break inside, and comma, quote and line break.
CodecChars == {"x", COMMA, QUOTE, LF, " "}
TitleBroken == <<"x", LF, "y">>
TitleMixed == <<"a", COMMA, QUOTE, LF, "b">>

CodecTitles == StringsUpTo(CodecChars, MaxStrLen) \cup {TitleBroken, TitleMixed}
CodecNotes == { <<>>, <<"n">>, <<"n", CR, LF>>, TitleMixed }
CodecNames == { N_a, N_wide, <<" ">> }

\* The mappings written: one entry, or a second one behind it.
CodecInputs ==
    {<<Row(fn, t, n)>> : fn \in CodecNames, t \in CodecTitles, n \in CodecNotes}
    \cup {<<Row(fn, t, n), Row(N_png, n, <<>>)>> :
            fn \in CodecNames, t \in CodecTitles, n \in CodecNotes}

InitCodec ==
    /\ dirExists = FALSE
    /\ dir = << >>
    /\ csv = NoFile
    /\ html = NoPage
    /\ out = [NoRun EXCEPT !.prog = "codec", !.status = "drawn"]
    /\ input \in CodecInputs
    /\ output = << >>

\* write_csv(path, rows)
CodecWrite ==
    /\ out.prog = "codec" /\ out.status = "drawn"
    /\ csv' = write_csv(input)
    /\ out' = [out EXCEPT !.status = "written"]
    /\ UNCHANGED <<dirExists, dir, html, input, output>>

\* read_existing(path)
CodecRead ==
    /\ out.prog = "codec" /\ out.status = "written"
    /\ output' = read_existing(csv)
    /\ out' = [out EXCEPT !.status = "read"]
    /\ UNCHANGED <<dirExists, dir, csv, html, input>>

NextCodec == CodecWrite \/ CodecRead

SpecCodec == InitCodec /\ [][NextCodec]_vars

----------------------------------------------------------------------------
(* figure_block on its own. *)

\* The five characters the escaping is about, and a title that holds them all.
FiveChars == {"&", "<", ">", QUOTE, "'"}
TitleFive == <<"<", "s", ">", "&", QUOTE, "'">>

FigureTitles == StringsUpTo(FiveChars \cup {"a", ";"}, MaxStrLen) \cup {TitleFive}
FigureNotes == { <<>>, <<"n">>, TitleFive }
FigureNames ==
    { N_a, N_dot, <<"a", "'", "b", "&", ".", "j", "p", "g">>,
      <<"<", QUOTE, ">", ".", "p", "n", "g">>, <<"&", "a", "m", "p", ";", ".", "g", "i", "f">> }

InitFigure ==
    /\ dirExists = FALSE
    /\ dir = << >>
    /\ csv = NoFile
    /\ html = NoPage
    /\ out = [NoRun EXCEPT !.prog = "figure_block", !.status = "drawn"]
    /\ input \in [filename : FigureNames, title : FigureTitles, note : FigureNotes]
    /\ output = << >>

FigureBlock ==
    /\ out.prog = "figure_block" /\ out.status = "drawn"
    /\ output' = figure_block(input.filename, input.title, input.note)
    /\ out' = [out EXCEPT !.status = "ok"]
    /\ UNCHANGED <<dirExists, dir, csv, html, input>>

NextFigure == FigureBlock

SpecFigure == InitFigure /\ [][NextFigure]_vars

----------------------------------------------------------------------------
(* What the claims are stated with. *)

\* A name with a stem and one of the image extensions, in any letter case.
HasImageExt(name) ==
    \E e \in IMAGE_EXTS :
        /\ Len(name) > Len(e)
        /\ Lower(SubSeq(name, Len(name) - Len(e) + 1, Len(name))) = e

\* The current images: the regular files of the directory with such a name.
ImageNames(d) == {n \in DOMAIN d : d[n] = "file" /\ HasImageExt(n)}

\* Ascending by case-insensitive comparison.
SortedCI(names) ==
    \A i, j \in DOMAIN names : i < j => ~StrLess(Lower(names[j]), Lower(names[i]))

NoRepeat(seq) == \A i, j \in DOMAIN seq : i # j => seq[i] # seq[j]

\* The data rows of a caption store file, as csv.reader returns them.
DataRows(file) ==
    LET records == CsvReader(file) IN IF records = <<>> THEN <<>> ELSE Tail(records)

\* The file names of the rows, in the order of the rows.
RowNames(file) == LET rows == DataRows(file) IN [i \in DOMAIN rows |-> rows[i][1]]

SyncDone == out.prog = "sync" /\ out.status = "ok"
RenderDone == out.prog = "render" /\ out.status = "ok"

\* Where the figure blocks of a page start (at their href), in ascending order.
HrefsOf(page) ==
    SelectSeq([i \in 1..Len(page) |-> i], LAMBDA i : page[i].kind = "href")

\* The figure blocks of a page: each from its href to the next one's.
FigureBlocks(page) ==
    LET at == HrefsOf(page)
    IN  [k \in DOMAIN at |->
            SubSeq(page, at[k], IF k < Len(at) THEN at[k + 1] - 1 ELSE Len(page))]

\* The values a block carries at a place.
ValuesAt(block, kind) ==
    LET picked == SelectSeq(block, LAMBDA seg : seg.kind = kind)
    IN  [i \in DOMAIN picked |-> picked[i].text]

\* C8: the Image Lister (of either script) returns its names in ascending
\* case-insensitive order, and called twice on an unchanged directory it
\* returns the same sequence, whatever order the directory is enumerated in.
C8_ListingSortedAndRepeatable ==
    [][out'.prog \in {"list_images", "album_list_images"} =>
          /\ SortedCI(output')
          /\ out.prog = out'.prog => output' = output]_vars

\* C10: the Image Lister returns exactly the regular files with an image
\* extension in any letter case: a.txt and a subdirectory b.jpg are never
\* listed, a.JPG is; and they are what the Synchronizer writes rows for and
\* the Renderer figures for.
C10_ListedAreTheImageFiles ==
    out.status = "ok" /\ out.prog \in {"sync", "render"} =>
        /\ Range(out.images) = ImageNames(dir)
        /\ NoRepeat(out.images)
        /\ N_txt \notin Range(out.images) /\ N_b \notin Range(out.images)
        /\ N_aJPG \in DOMAIN dir => N_aJPG \in Range(out.images)
        /\ SyncDone => RowNames(csv) = out.images
        /\ RenderDone =>
              LET blocks == FigureBlocks(html)
              IN  /\ Len(blocks) = Len(out.images)
                  /\ \A k \in DOMAIN blocks :
                        ValuesAt(blocks[k], "href") = <<escape_attr(out.images[k])>>

\* C10 happens: a run that listed a.JPG beside a.txt or the subdirectory.
C10_Witness ==
    /\ SyncDone
    /\ N_aJPG \in Range(out.images)
    /\ DOMAIN dir \cap {N_txt, N_b} # {}

\* C1: after a run of the Synchronizer that completes, the keys of the caption
\* store as read back are exactly the current image file names, no file name
\* is in two rows, and the rows are in the Lister's order.
C1_StoreKeysAreTheImages ==
    SyncDone =>
        /\ DOMAIN read_existing(csv) = ImageNames(dir)
        /\ NoRepeat(RowNames(csv))
        /\ RowNames(csv) = out.images

C3_SecondRunChangesNothing ==
    [][(SyncDone /\ out'.prog = "sync" /\ out'.status = "ok") =>
          (csv' = csv /\ out'.printed[3] = <<"new rows added", 0>>)]_vars

\* C9: with the images directory missing, either script ends with the
\* missing-directory failure: the caption store and the page stay as they
\* were, and no success line is printed.
C9_MissingDirectoryWritesNothing ==
    [][(~dirExists /\ out'.prog \in {"sync", "render"}) =>
          /\ out'.status = "SystemExit"
          /\ csv' = csv
          /\ html' = html
          /\ out'.printed = <<>>]_vars

\* C9 happens: a script failed on the missing directory with both files there.
C9_Witness ==
    /\ ~dirExists
    /\ out.status = "SystemExit"
    /\ csv \notin {NoFile, <<>>}
    /\ html # NoPage

MappingOf(rows) ==
    [fn \in {rows[i].filename : i \in DOMAIN rows} |->
        LET i == Max({j \in DOMAIN rows : rows[j].filename = fn})
        IN  [title |-> rows[i].title, note |-> rows[i].note]]

CodecDone == out.prog = "codec" /\ out.status = "read"

\* C4, as claimed: every mapping written by the codec's writer is read back
\* by its reader as the mapping that was written.
C4_RoundTripOfEveryMapping == CodecDone => output = MappingOf(input)

\* A string that white-space trimming leaves as it is.
NoEdgeSpace(str) == str = <<>> \/ (~IsSpace(str[1]) /\ ~IsSpace(str[Len(str)]))

Trimmed(rows) ==
    \A i \in DOMAIN rows :
        /\ rows[i].filename # <<>>
        /\ NoEdgeSpace(rows[i].filename)
        /\ NoEdgeSpace(rows[i].title)
        /\ NoEdgeSpace(rows[i].note)

\* C4, amended: a mapping whose file names are not empty and whose file names,
\* titles and notes neither begin nor end with white space is read back as it
\* was written, commas, quotes and line breaks inside them included.
C4_RoundTripOfTrimmedMappings == (CodecDone /\ Trimmed(input)) => output = MappingOf(input)

\* C4 happens: a trimmed mapping of two entries, with comma, quote and line
\* break in a title and in a note, was written and read back.
C4_Witness ==
    /\ CodecDone
    /\ Trimmed(input)
    /\ Len(input) = 2
    /\ input[1].title = TitleMixed
    /\ input[1].note = TitleMixed

\* The entities of the Renderer.
Entities ==
    { [ent |-> <<"&", "a", "m", "p", ";">>, ch |-> "&"],
      [ent |-> <<"&", "l", "t", ";">>, ch |-> "<"],
      [ent |-> <<"&", "g", "t", ";">>, ch |-> ">"],
      [ent |-> <<"&", "q", "u", "o", "t", ";">>, ch |-> QUOTE],
      [ent |-> <<"&", "#", "3", "9", ";">>, ch |-> "'"] }

StartsWith(str, prefix) ==
    Len(str) >= Len(prefix) /\ SubSeq(str, 1, Len(prefix)) = prefix

\* What a browser makes of an escaped text: each entity is its character.
RECURSIVE Unescape(_)
Unescape(str) ==
    IF str = <<>> THEN <<>>
    ELSE IF \E e \in Entities : StartsWith(str, e.ent)
         THEN LET e == CHOOSE e \in Entities : StartsWith(str, e.ent)
              IN  <<e.ch>> \o Unescape(SubSeq(str, Len(e.ent) + 1, Len(str)))
    ELSE <<Head(str)>> \o Unescape(Tail(str))

\* No <, > or double quote is left, and every & opens an entity.
EscapedText(str) ==
    /\ Range(str) \cap {"<", ">", QUOTE} = {}
    /\ \A i \in DOMAIN str :
          str[i] = "&" => \E e \in Entities : StartsWith(SubSeq(str, i, Len(str)), e.ent)

\* The same, and no apostrophe is left.
EscapedAttr(str) == EscapedText(str) /\ "'" \notin Range(str)

FigureDone == out.prog = "figure_block" /\ out.status = "ok"

\* C6: every value interpolated into a figure block (the file name in href and
\* src, the alt text, the title, the note) has its ampersands, <, > and double
\* quotes escaped, a value in an attribute its apostrophes too, and no other
\* value reaches the markup.
C6_EveryValueEscaped ==
    FigureDone =>
        LET attr(kind, value) ==
                /\ ValuesAt(output, kind) # <<>>
                /\ \A i \in DOMAIN ValuesAt(output, kind) :
                      /\ EscapedAttr(ValuesAt(output, kind)[i])
                      /\ Unescape(ValuesAt(output, kind)[i]) = value
            text(kind, value) ==
                /\ Len(ValuesAt(output, kind)) = 1
                /\ EscapedText(ValuesAt(output, kind)[1])
                /\ Unescape(ValuesAt(output, kind)[1]) = value
        IN  /\ attr("href", input.filename)
            /\ attr("src", input.filename)
            /\ attr("alt", Stem(input.filename))
            /\ text("title", IF input.title = <<>> THEN PLACEHOLDER ELSE input.title)
            /\ IF input.note = <<>> THEN ValuesAt(output, "note") = <<>>
               ELSE text("note", input.note)
            /\ \A i \in DOMAIN output :
                  output[i].kind \in {"lit", "href", "src", "alt", "title", "note"}

\* C6 happens: a block for a file name with an apostrophe and an ampersand, a
\* title and a note with all five characters.
C6_Witness ==
    /\ FigureDone
    /\ {"'", "&"} \subseteq Range(input.filename)
    /\ input.title = TitleFive
    /\ input.note = TitleFive

\* C5, as claimed: a title that holds <, >, &, double quote and apostrophe
\* leaves none of the five raw in the figure block, neither in the caption
\* text nor in the alt and href attributes.
C5_TitleFiveEscapedEverywhere ==
    (FigureDone /\ FiveChars \subseteq Range(input.title)) =>
        \A kind \in {"title", "alt", "href"} :
            /\ ValuesAt(output, kind) # <<>>
            /\ \A i \in DOMAIN ValuesAt(output, kind) : EscapedAttr(ValuesAt(output, kind)[i])

\* C5, amended: a title that holds the five characters is rendered in the
\* caption text with <, >, & and the double quote replaced by their entities
\* and its apostrophes left as they are; the alt, href and src attributes
\* carry the file name, never the title, with all five characters escaped.
C5_TitleEscapedApostropheKept ==
    (FigureDone /\ FiveChars \subseteq Range(input.title)) =>
        LET shown == ValuesAt(output, "title")
            apostrophes(str) == Cardinality({i \in DOMAIN str : str[i] = "'"})
        IN  /\ Len(shown) = 1
            /\ EscapedText(shown[1])
            /\ Unescape(shown[1]) = input.title
            /\ apostrophes(shown[1]) = apostrophes(input.title)
            /\ \A kind \in {"alt", "href", "src"} :
                  /\ ValuesAt(output, kind) # <<>>
                  /\ \A i \in DOMAIN ValuesAt(output, kind) :
                        /\ EscapedAttr(ValuesAt(output, kind)[i])
                        /\ Unescape(ValuesAt(output, kind)[i]) =
                              IF kind = "alt" THEN Stem(input.filename) ELSE input.filename

\* C5 happens: the title with the five characters, on a file name with an
\* apostrophe.
C5_Witness ==
    /\ FigureDone
    /\ input.title = TitleFive
    /\ "'" \in Range(input.filename)
    /\ "'" \in Range(ValuesAt(output, "title")[1])

====
